---- MODULE Spec2Model ----
(***************************************************************************)
(* Model of src/src/lib.rs (regex_generator): generate_regex_tree,         *)
(* find_common_substrings, build_tree, tree_to_graph.                       *)
(*                                                                         *)
(* A Rust &str is modelled as the sequence of its UTF-8 bytes; every byte  *)
(* is a one-character TLA+ string.  "L" is the lead byte and "C" the       *)
(* continuation byte of one two-byte character, all other bytes are ASCII. *)
(* Offsets are 0-based as in the source; sequences are 1-based, so byte    *)
(* offset k of the source is element k+1 here.                              *)
(***************************************************************************)
EXTENDS Integers, Sequences, FiniteSets

VARIABLES strings, pc, i, j, common_substrings, substrings, nodes, tree,
          graph, stack

vars == <<strings, pc, i, j, common_substrings, substrings, nodes, tree,
          graph, stack>>

(***************************** bounds *************************************)
\* longest sample, in bytes
MaxLen == 3
\* most samples in one call
MaxSamples == 2
\* most bytes in the samples of one call together
MaxBytes == 6
\* longest substring list handed to build_tree directly
MaxSubs == 3
\* longest substring in such a list
MaxSubLen == 2
\* longest substring and longest text of the escaping specification
MaxEscLen == 3

(***************************** text ***************************************)
\* the ASCII characters of the samples: a plain one and a metacharacter
AsciiChars == {<<"a">>, <<".">>}
\* one two-byte character (lead byte, continuation byte)
WideChars == {<<"L", "C">>}
ContinuationBytes == {"C"}

RECURSIVE Utf8Strings(_)
\* the valid UTF-8 texts of exactly n bytes
Utf8Strings(n) ==
  IF n = 0 THEN {<<>>}
  ELSE {c \o t : c \in AsciiChars, t \in Utf8Strings(n - 1)}
       \cup (IF n >= 2
             THEN {c \o t : c \in WideChars, t \in Utf8Strings(n - 2)}
             ELSE {})

Samples == UNION {Utf8Strings(n) : n \in 0..MaxLen}

RECURSIVE SampleLists(_, _)
\* the lists of exactly n samples of at most `bytes` bytes together
SampleLists(n, bytes) ==
  IF n = 0 THEN {<<>>}
  ELSE UNION {{<<s>> \o l : l \in SampleLists(n - 1, bytes - Len(s))} :
              s \in {x \in Samples : Len(x) <= bytes}}

\* str::contains(needle): literal containment (true for the empty needle)
Contains(haystack, needle) ==
  \E k \in 0..(Len(haystack) - Len(needle)) :
     SubSeq(haystack, k + 1, k + Len(needle)) = needle

\* str::is_char_boundary: what &s[i..j] checks for both offsets
IsCharBoundary(s, k) ==
  \/ k = 0
  \/ k = Len(s)
  \/ k > 0 /\ k < Len(s) /\ s[k + 1] \notin ContinuationBytes

\* a slice that never checks its offsets
SliceNeverFaults(s, lo, hi) == FALSE

\* &first[i..j] panics unless both offsets are character boundaries
SliceFaults(s, lo, hi) == ~IsCharBoundary(s, lo) \/ ~IsCharBoundary(s, hi)

\* &first[i..j] when it does not panic
Slice(s, lo, hi) == SubSeq(s, lo + 1, hi)

(***************************** escaping ***********************************)
\* regex_syntax::is_meta_character
MetaChars == {"\\", ".", "+", "*", "?", "(", ")", "|", "[", "]", "{", "}",
              "^", "$", "#", "&", "-", "~"}

RECURSIVE EscapeBroken(_)
\* regex::escape that forgets the dot
EscapeBroken(s) ==
  IF s = <<>> THEN <<>>
  ELSE (IF Head(s) \in MetaChars \ {"."} THEN <<"\\", Head(s)>> ELSE <<Head(s)>>)
       \o EscapeBroken(Tail(s))

RECURSIVE Escape(_)
\* regex::escape: a backslash before every metacharacter
Escape(s) ==
  IF s = <<>> THEN <<>>
  ELSE (IF Head(s) \in MetaChars THEN <<"\\", Head(s)>> ELSE <<Head(s)>>)
       \o Escape(Tail(s))

Wildcard == <<".", "*">>

\* format!(".*{}.*", regex::escape(substring))
FormatPattern(s) == Wildcard \o Escape(s) \o Wildcard

(***************************** nodes **************************************)
Node(p, c) == [pattern |-> p, children |-> c]

\* lines 23-26 answering with the ordinary root
EmptyRootWild == [pattern |-> Wildcard, children |-> <<>>]

\* the degenerate root of an empty sample list (String::new(), vec![])
EmptyRoot == Node(<<>>, <<>>)

NoGraph == [nodes |-> <<>>, edges |-> <<>>]

(***************************** find_common_substrings *********************)
\* line 49 testing the first sample only
AllContainFirstOnly(ss, sub) == Contains(ss[1], sub)

\* strings.iter().all(|s| s.contains(substring))
AllContain(ss, sub) == \A k \in 1..Len(ss) : Contains(ss[k], sub)

RECURSIVE IterOrders(_)
\* HashSet::into_iter().collect(): the elements in an unspecified order
IterOrders(S) ==
  IF S = {} THEN {<<>>}
  ELSE UNION {{<<x>> \o v : v \in IterOrders(S \ {x})} : x \in S}

RECURSIVE InsertByLen(_, _)
InsertByLen(sorted, x) ==
  IF sorted = <<>> THEN <<x>>
  ELSE IF Len(Head(sorted)) <= Len(x)
       THEN <<Head(sorted)>> \o InsertByLen(Tail(sorted), x)
       ELSE <<x>> \o sorted

RECURSIVE SortByKeyLen(_)
\* sort_by_key(|s| s.len()): stable, ascending
SortByKeyLen(v) ==
  IF v = <<>> THEN <<>>
  ELSE InsertByLen(SortByKeyLen(SubSeq(v, 1, Len(v) - 1)), v[Len(v)])

Reverse(v) == [k \in 1..Len(v) |-> v[Len(v) + 1 - k]]

\* lines 55-57 without the reverse
SortedSubstringsNoReverse(v) == SortByKeyLen(v)

\* lines 55-57 on the iteration order v
SortedSubstrings(v) == Reverse(SortByKeyLen(v))

(***************************** generate_regex_tree ************************)
\* the first sample (strings[0])
first == strings[1]

\* lines 22-27: an empty sample list returns the degenerate root
ReturnEmptyRoot ==
  /\ pc = "start"
  /\ strings = <<>>
  /\ tree' = <<EmptyRoot>>
  /\ pc' = "returned"
  /\ UNCHANGED <<strings, i, j, common_substrings, substrings, nodes, graph, stack>>

\* lines 29, 43-47: enter find_common_substrings; the loops run only over a
\* non-empty first sample
EnterFind ==
  /\ pc = "start"
  /\ strings # <<>>
  /\ common_substrings' = {}
  /\ IF Len(first) = 0
     THEN pc' = "sort" /\ UNCHANGED <<i, j>>
     ELSE pc' = "extract" /\ i' = 0 /\ j' = 1
  /\ UNCHANGED <<strings, substrings, nodes, tree, graph, stack>>

\* line 48 at a non-boundary offset: the slice panics, the call unwinds and
\* returns nothing (the variables keep the values they had at the fault)
SliceFault ==
  /\ pc = "extract"
  /\ SliceFaults(first, i, j)
  /\ pc' = "panicked"
  /\ UNCHANGED <<strings, i, j, common_substrings, substrings, nodes, tree, graph, stack>>

\* lines 46-53: one iteration of the inner loop
ExtractStep ==
  /\ pc = "extract"
  /\ ~SliceFaults(first, i, j)
  /\ LET substring == Slice(first, i, j) IN
       common_substrings' =
         IF AllContain(strings, substring)
         THEN common_substrings \cup {substring}
         ELSE common_substrings
  /\ IF j < Len(first)
     THEN i' = i /\ j' = j + 1 /\ pc' = pc
     ELSE IF i + 1 < Len(first)
          THEN i' = i + 1 /\ j' = i + 2 /\ pc' = pc
          ELSE i' = 0 /\ j' = 0 /\ pc' = "sort"
  /\ UNCHANGED <<strings, substrings, nodes, tree, graph, stack>>

\* lines 55-58: collect the set in its iteration order, sort, reverse, return
SortStep ==
  /\ pc = "sort"
  /\ \E v \in IterOrders(common_substrings) : substrings' = SortedSubstrings(v)
  /\ common_substrings' = {}
  /\ pc' = "build"
  /\ UNCHANGED <<strings, i, j, nodes, tree, graph, stack>>

(***************************** build_tree *********************************)
\* lines 78-84: one childless node per substring, in order
FormatNodes(subs) == [k \in 1..Len(subs) |-> Node(FormatPattern(subs[k]), <<>>)]

\* lines 71-86: the root and the formatted nodes
BuildFormat ==
  /\ pc = "build"
  /\ nodes' = FormatNodes(substrings)
  /\ i' = 0
  /\ pc' = "nest"
  /\ UNCHANGED <<strings, j, common_substrings, substrings, tree, graph, stack>>

\* the text between the two wildcards of a formatted pattern
Middle(p) == SubSeq(p, Len(Wildcard) + 1, Len(p) - Len(Wildcard))

RECURSIVE CollectFromContained(_, _, _)
\* lines 90-94 nesting node j under node i when i's pattern contains j's
\* escaped substring
CollectFromContained(ns, a, b) ==
  IF b >= Len(ns) THEN <<>>
  ELSE (IF Contains(ns[a + 1].pattern, Middle(ns[b + 1].pattern))
        THEN <<ns[b + 1]>> ELSE <<>>)
       \o CollectFromContained(ns, a, b + 1)

RECURSIVE CollectFrom(_, _, _)
\* lines 90-94: the inner loop from j = b on, cloning every node whose
\* pattern contains the pattern of node a
CollectFrom(ns, a, b) ==
  IF b >= Len(ns) THEN <<>>
  ELSE (IF Contains(ns[b + 1].pattern, ns[a + 1].pattern)
        THEN <<ns[b + 1]>> ELSE <<>>)
       \o CollectFrom(ns, a, b + 1)

\* lines 89-95 with the inner loop starting at j = i
NestOneFromSelf(ns, a) == [ns EXCEPT ![a + 1].children = CollectFrom(ns, a, a)]

\* lines 88-96 run from the last node to the first
NestOrderReversed(ns, a) ==
  LET r == Len(ns) - 1 - a IN
    [ns EXCEPT ![r + 1].children = CollectFrom(ns, r, r + 1)]

\* lines 89-95: iteration a of the outer loop
NestOne(ns, a) == [ns EXCEPT ![a + 1].children = CollectFrom(ns, a, a + 1)]

\* lines 88-96: one iteration of the outer loop
NestStep ==
  /\ pc = "nest"
  /\ i < Len(nodes)
  /\ nodes' = NestOne(nodes, i)
  /\ i' = i + 1
  /\ UNCHANGED <<strings, pc, j, common_substrings, substrings, tree, graph, stack>>

\* lines 98-99 dropping the nodes
RootOfNone(ns) == Node(Wildcard, <<>>)

\* lines 71-74, 98-99: the root takes every node as its children
RootOf(ns) == Node(Wildcard, ns)

\* lines 98-99: return the root
BuildReturn ==
  /\ pc = "nest"
  /\ i = Len(nodes)
  /\ tree' = <<RootOf(nodes)>>
  /\ pc' = "returned"
  /\ UNCHANGED <<strings, i, j, common_substrings, substrings, nodes, graph, stack>>

(***************************** tree_to_graph ******************************)
Frame(p, c) == [parent |-> p, children |-> c, next |-> 1]

Top == stack[Len(stack)]

\* lines 112-114: the root becomes vertex 0
GraphStart ==
  /\ pc = "returned"
  /\ graph' = [nodes |-> <<tree[1].pattern>>, edges |-> <<>>]
  /\ stack' = <<Frame(0, tree[1].children)>>
  /\ pc' = "walk"
  /\ UNCHANGED <<strings, i, j, common_substrings, substrings, nodes, tree>>

\* line 132 with every edge drawn from the root
EdgeFromRoot(parent, child) == <<0, child>>

\* line 132: graph.add_edge(parent_index, child_index, ())
EdgeOf(parent, child) == <<parent, child>>

\* lines 130-133: add the next child and its edge, then descend into it
WalkVisit ==
  /\ pc = "walk"
  /\ Top.next <= Len(Top.children)
  /\ LET child == Top.children[Top.next]
         child_index == Len(graph.nodes)
     IN /\ graph' = [nodes |-> Append(graph.nodes, child.pattern),
                     edges |-> Append(graph.edges, EdgeOf(Top.parent, child_index))]
        /\ stack' = Append([stack EXCEPT ![Len(stack)].next = @ + 1],
                           Frame(child_index, child.children))
  /\ UNCHANGED <<strings, pc, i, j, common_substrings, substrings, nodes, tree>>

\* lines 130, 134-135: the loop over the children is over, return to the caller
WalkReturn ==
  /\ pc = "walk"
  /\ Top.next > Len(Top.children)
  /\ stack' = SubSeq(stack, 1, Len(stack) - 1)
  /\ pc' = IF Len(stack) = 1 THEN "done" ELSE pc
  /\ UNCHANGED <<strings, i, j, common_substrings, substrings, nodes, tree, graph>>

(***************************** specifications *****************************)
\* generate_regex_tree on a sample list, then tree_to_graph on its result
Init ==
  /\ strings \in UNION {SampleLists(n, MaxBytes) : n \in 0..MaxSamples}
  /\ pc = "start"
  /\ i = 0
  /\ j = 0
  /\ common_substrings = {}
  /\ substrings = <<>>
  /\ nodes = <<>>
  /\ tree = <<>>
  /\ graph = NoGraph
  /\ stack = <<>>

Next ==
  \/ ReturnEmptyRoot
  \/ EnterFind
  \/ SliceFault
  \/ ExtractStep
  \/ SortStep
  \/ BuildFormat
  \/ NestStep
  \/ BuildReturn
  \/ GraphStart
  \/ WalkVisit
  \/ WalkReturn

Spec == Init /\ [][Next]_vars

\* build_tree on any ordered substring list, then tree_to_graph
BuildChars == {<<"a">>, <<".">>}

RECURSIVE BuildStrings(_)
BuildStrings(n) ==
  IF n = 0 THEN {<<>>}
  ELSE {c \o t : c \in BuildChars, t \in BuildStrings(n - 1)}

RECURSIVE SubLists(_, _)
SubLists(S, n) ==
  IF n = 0 THEN {<<>>}
  ELSE {Append(l, s) : l \in SubLists(S, n - 1), s \in S}

InitBuild ==
  /\ strings = <<>>
  /\ pc = "build"
  /\ i = 0
  /\ j = 0
  /\ common_substrings = {}
  /\ substrings \in UNION {SubLists(UNION {BuildStrings(n) : n \in 0..MaxSubLen}, m) :
                           m \in 0..MaxSubs}
  /\ nodes = <<>>
  /\ tree = <<>>
  /\ graph = NoGraph
  /\ stack = <<>>

NextBuild ==
  \/ BuildFormat
  \/ NestStep
  \/ BuildReturn
  \/ GraphStart
  \/ WalkVisit
  \/ WalkReturn

SpecBuild == InitBuild /\ [][NextBuild]_vars

\* build_tree on a single substring that mixes plain text, metacharacters
\* and backslashes
EscChars == {<<"a">>, <<"X">>, <<".">>, <<"\\">>}

RECURSIVE EscStrings(_)
EscStrings(n) ==
  IF n = 0 THEN {<<>>}
  ELSE {c \o t : c \in EscChars, t \in EscStrings(n - 1)}

\* every such text, and every metacharacter on its own
EscTexts == UNION {EscStrings(n) : n \in 0..MaxEscLen} \cup {<<c>> : c \in MetaChars}

InitEscape ==
  /\ strings = <<>>
  /\ pc = "build"
  /\ i = 0
  /\ j = 0
  /\ common_substrings = {}
  /\ substrings \in {<<s>> : s \in EscTexts \ {<<>>}}
  /\ nodes = <<>>
  /\ tree = <<>>
  /\ graph = NoGraph
  /\ stack = <<>>

SpecEscape == InitEscape /\ [][NextBuild]_vars

(***************************** what the claims speak of *******************)
ToSet(v) == {v[k] : k \in DOMAIN v}

\* the non-empty contiguous byte slices of s
Slices(s) == {SubSeq(s, a, b) : a \in 1..Len(s), b \in 1..Len(s)} \ {<<>>}

\* the non-empty texts that every sample contains
CommonSet(ss) ==
  {t \in UNION {Slices(ss[k]) : k \in 1..Len(ss)} :
     \A k \in 1..Len(ss) : Contains(ss[k], t)}

AsciiBytes == {c[1] : c \in AsciiChars}

HasWide(s) == \E k \in 1..Len(s) : s[k] \notin AsciiBytes

\* find_common_substrings has returned its vector (still held in substrings)
Found == strings # <<>> /\ pc \in {"build", "nest", "returned", "walk", "done"}

\* generate_regex_tree / build_tree has returned its root
Returned == pc \in {"returned", "walk", "done"}

Root == tree[1]

\* C1: the vector find_common_substrings returns holds exactly the non-empty
\* texts that every sample contains: each returned string is contained in
\* every sample, and no other text is.
C1_ExactlyCommon == Found => ToSet(substrings) = CommonSet(strings)

C1_Witness ==
  /\ Found
  /\ Len(strings) = 2
  /\ substrings # <<>>
  /\ \E t \in Slices(strings[1]) : t \notin ToSet(substrings)
  /\ \E t \in Slices(strings[2]) : t \notin ToSet(substrings)

\* C2: for a non-empty sample list the returned root has the pattern ".*"
\* and one child per common substring, in the extractor's order, the k-th
\* with pattern ".*" escape(k-th substring) ".*".
C2_RootAndChildren ==
  (Returned /\ strings # <<>>) =>
     /\ Len(tree) = 1
     /\ Root.pattern = <<".", "*">>
     /\ Len(Root.children) = Len(substrings)
     /\ Len(Root.children) = Cardinality(CommonSet(strings))
     /\ \A k \in 1..Len(substrings) :
          Root.children[k].pattern =
            <<".", "*">> \o Escape(substrings[k]) \o <<".", "*">>

C2_Witness ==
  /\ Returned
  /\ Len(strings) = 2
  /\ Len(Root.children) >= 3
  /\ \E k \in 1..Len(substrings) : Escape(substrings[k]) # substrings[k]

\* the positions after a (1-based) whose pattern contains the pattern at a
Qualifying(ns, a) ==
  {b \in (a + 1)..Len(ns) : Contains(ns[b].pattern, ns[a].pattern)}

\* ch lists exactly the patterns of the positions in idx, in increasing order
ListsInOrder(ch, ns, idx) ==
  /\ Len(ch) = Cardinality(idx)
  /\ \A b \in idx : ch[Cardinality({c \in idx : c <= b})].pattern = ns[b].pattern

\* C3: node i (of the ordered list) has a clone of node j among its children
\* iff i < j and j's formatted pattern contains i's formatted pattern; the
\* children are in increasing j, and a node qualifying under several nodes
\* is in each of their lists.
C3_ChildrenByContainment ==
  /\ pc = "nest" =>
       \A a \in 1..i : ListsInOrder(nodes[a].children, nodes, Qualifying(nodes, a))
  /\ Returned =>
       \A a \in 1..Len(Root.children) :
          ListsInOrder(Root.children[a].children, Root.children,
                       Qualifying(Root.children, a))

C3_Witness ==
  /\ Returned
  /\ Len(Root.children) = 3
  /\ Len(Root.children[1].children) = 1
  /\ Root.children[1].children[1].pattern = Root.children[3].pattern
  /\ Root.children[2].pattern # Root.children[3].pattern
  /\ Len(Root.children[2].children) = 0

\* C4: the returned vector is sorted by length descending and holds no
\* string twice; for a single sample it has one entry per distinct non-empty
\* substring of the sample.
C4_SortedDistinct ==
  Found =>
     /\ \A k \in 1..(Len(substrings) - 1) :
          Len(substrings[k]) >= Len(substrings[k + 1])
     /\ \A k, l \in 1..Len(substrings) : substrings[k] = substrings[l] => k = l
     /\ Len(strings) = 1 => Len(substrings) = Cardinality(Slices(strings[1]))

C4_Witness ==
  /\ Found
  /\ Len(strings) = 1
  /\ Len(strings[1]) = 3
  /\ Len(substrings) = 5
  /\ Len(substrings[1]) = 3
  /\ Len(substrings[5]) = 1

\* C5: an empty sample list returns, without a fault, the root with the
\* empty pattern and no children; every non-empty list that returns has the
\* root pattern ".*", and when its first sample is empty the substring list
\* is empty and the root has no children.
C5_DegenerateRoot ==
  /\ strings = <<>> => pc \in {"start", "returned", "walk", "done"}
  /\ (Returned /\ strings = <<>>) => tree = <<[pattern |-> <<>>, children |-> <<>>]>>
  /\ (Returned /\ strings # <<>>) => (Root.pattern = <<".", "*">> /\ Root.pattern # <<>>)
  /\ (strings # <<>> /\ strings[1] = <<>>) =>
        /\ pc # "panicked"
        /\ substrings = <<>>
        /\ Returned => Root.children = <<>>

C5_Witness ==
  /\ pc = "returned"
  /\ strings = <<>>
  /\ tree = <<[pattern |-> <<>>, children |-> <<>>]>>

RECURSIVE ParseAtoms(_)
\* the pattern syntax the patterns are written in, as far as they use it: a
\* backslash makes the next character a literal, a bare dot stands for any
\* character, any other character for itself, and a star after an atom
\* repeats it zero or more times
ParseAtoms(p) ==
  IF p = <<>> THEN <<>>
  ELSE LET esc == Head(p) = "\\" /\ Len(p) >= 2
           used == IF esc THEN 2 ELSE 1
           star == Len(p) > used /\ p[used + 1] = "*"
           atom == [any |-> ~esc /\ Head(p) = ".",
                    ch |-> IF esc THEN p[2] ELSE Head(p),
                    star |-> star]
       IN <<atom>> \o ParseAtoms(SubSeq(p, used + 1 + (IF star THEN 1 ELSE 0), Len(p)))

Accepts(atom, c) == atom.any \/ atom.ch = c

RECURSIVE FullMatch(_, _)
\* the atoms match the whole of text
FullMatch(atoms, text) ==
  IF atoms = <<>> THEN text = <<>>
  ELSE IF Head(atoms).star
       THEN \/ FullMatch(Tail(atoms), text)
            \/ /\ text # <<>>
               /\ Accepts(Head(atoms), Head(text))
               /\ FullMatch(atoms, Tail(text))
       ELSE /\ text # <<>>
            /\ Accepts(Head(atoms), Head(text))
            /\ FullMatch(Tail(atoms), Tail(text))

\* an unanchored match: the pattern matches somewhere in text
IsMatch(p, text) ==
  \E a \in 1..(Len(text) + 1) : \E b \in (a - 1)..Len(text) :
     FullMatch(ParseAtoms(p), SubSeq(text, a, b))

\* C6: the pattern of the node of substring s is ".*" e ".*" where e reads
\* back, escape by escape, as the literal text s: e matches s and no other
\* text, the whole pattern matches exactly the texts that contain s, and no
\* other substring has the same pattern.
C6_EscapeRoundTrip ==
  pc = "returned" =>
    \A k \in 1..Len(substrings) :
      LET s == substrings[k]
          p == Root.children[k].pattern
          e == SubSeq(p, 3, Len(p) - 2)
      IN /\ Len(p) >= 4
         /\ p = <<".", "*">> \o e \o <<".", "*">>
         /\ Len(ParseAtoms(e)) = Len(s)
         /\ \A n \in 1..Len(s) :
              ParseAtoms(e)[n] = [any |-> FALSE, ch |-> s[n], star |-> FALSE]
         /\ \A n \in 1..Len(s) :
              s[n] \in MetaChars =>
                 \E m \in 1..(Len(e) - 1) : e[m] = "\\" /\ e[m + 1] = s[n]
         /\ \A x \in EscTexts : FullMatch(ParseAtoms(e), x) <=> x = s
         /\ \A x \in EscTexts : IsMatch(p, x) <=> Contains(x, s)
         /\ \A x \in EscTexts : FormatPattern(x) = p => x = s

C6_Witness ==
  /\ pc = "returned"
  /\ substrings = <<(<<"a", ".", "a">>)>>
  /\ Root.children[1].pattern = <<".", "*", "a", "\\", ".", "a", ".", "*">>
  /\ IsMatch(Root.children[1].pattern, <<"a", ".", "a">>)
  /\ ~IsMatch(Root.children[1].pattern, <<"a", "X", "a">>)

\* C7: the substrings of the first sample are enumerated by byte offsets
\* 0 <= i < j <= len; when the first sample holds a multi-byte character the
\* slice at the first offset inside it faults and the call returns no tree,
\* and a fault happens only on such a first sample.
C7_FaultOnWideFirst ==
  /\ pc = "extract" => (0 <= i /\ i < j /\ j <= Len(first))
  /\ (pc = "extract" /\ HasWide(first)) =>
        (i = 0 /\ \A k \in 0..(j - 1) : IsCharBoundary(first, k))
  /\ (strings # <<>> /\ HasWide(first)) =>
        (pc \in {"start", "extract", "panicked"} /\ tree = <<>> /\ graph = NoGraph)
  /\ pc = "panicked" =>
        (strings # <<>> /\ HasWide(first) /\ tree = <<>> /\ graph = NoGraph)

C7_Witness ==
  /\ pc = "panicked"
  /\ common_substrings # {}
  /\ ~IsCharBoundary(first, j)
  /\ tree = <<>>

RECURSIVE Preorder(_), PreorderAll(_)
\* the patterns of a tree, parent before children, children left to right
Preorder(n) == <<n.pattern>> \o PreorderAll(n.children)
PreorderAll(cs) ==
  IF cs = <<>> THEN <<>> ELSE Preorder(Head(cs)) \o PreorderAll(Tail(cs))

RECURSIVE ParentEdges(_, _, _)
\* the parent->child pairs below the children cs of vertex parent, the first
\* of which gets index nxt, numbering the node occurrences in preorder
ParentEdges(cs, parent, nxt) ==
  IF cs = <<>> THEN <<>>
  ELSE <<<<parent, nxt>>>>
       \o ParentEdges(Head(cs).children, nxt, nxt + 1)
       \o ParentEdges(Tail(cs), parent, nxt + Len(Preorder(Head(cs))))

\* C8: the walk emits one vertex per node occurrence, parent before child,
\* and one edge per parent->child pair; after every step there are
\* (vertices - 1) edges, every non-root vertex has exactly one incoming
\* edge, from an earlier vertex, and the root is vertex 0.
C8_GraphIsTheTree ==
  /\ pc \in {"walk", "done"} =>
       /\ Len(graph.nodes) >= 1
       /\ graph.nodes[1] = Root.pattern
       /\ Len(graph.edges) = Len(graph.nodes) - 1
       /\ \A v \in 1..(Len(graph.nodes) - 1) :
            /\ Cardinality({e \in 1..Len(graph.edges) : graph.edges[e][2] = v}) = 1
            /\ \A e \in 1..Len(graph.edges) :
                 graph.edges[e][2] = v =>
                    (graph.edges[e][1] >= 0 /\ graph.edges[e][1] < v)
       /\ \A e \in 1..Len(graph.edges) : graph.edges[e][2] # 0
       /\ graph.nodes = SubSeq(Preorder(Root), 1, Len(graph.nodes))
       /\ graph.edges = SubSeq(ParentEdges(Root.children, 0, 1), 1, Len(graph.edges))
  /\ pc = "done" =>
       /\ graph.nodes = Preorder(Root)
       /\ graph.edges = ParentEdges(Root.children, 0, 1)

C8_Witness ==
  /\ pc = "done"
  /\ Len(Root.children) = 3
  /\ Len(Root.children[1].children) = 2
  /\ Len(Root.children[2].children) = 1
  /\ Len(graph.nodes) = 7
  /\ Len(graph.edges) = 6

C10_DepthTwo ==
  /\ pc = "nest" =>
       \A a \in 1..Len(nodes) : \A b \in 1..Len(nodes[a].children) :
          nodes[a].children[b].children = <<>>
  /\ Returned =>
       \A a \in 1..Len(Root.children) : \A b \in 1..Len(Root.children[a].children) :
          Root.children[a].children[b].children = <<>>

C10_Witness ==
  /\ pc = "returned"
  /\ Len(Root.children) = 3
  /\ Root.children[2].children # <<>>
  /\ Root.children[1].children[1].pattern = Root.children[2].pattern
  /\ Root.children[1].children[1].children = <<>>

====
